---------------------------- MODULE Spec2Model ----------------------------
(***************************************************************************)
(* Model of stan/prob/distributions/univariate/continuous/cauchy.hpp:      *)
(* the Cauchy log-density cauchy_log (four overloads) and the Cauchy CDF   *)
(* cauchy_p (two overloads).                                               *)
(*                                                                         *)
(* Numbers.  A double is a record [cls, num, den]: cls "fin" with the      *)
(* exact rational num/den in lowest terms (den > 0), or one of the IEEE    *)
(* specials "nan", "pinf", "ninf".  Rounding and overflow of finite        *)
(* values are not modelled; NaN and the infinities propagate as in IEEE    *)
(* arithmetic.  A result is a record [cls, form, pi, num, den]:            *)
(*   form "log"  : pi * (-log(pi)) - log(num/den),   num/den > 0           *)
(*   form "atan" : atan2(num, den) / pi + 0.5, (num, den) a direction      *)
(* pi is transcendental, so the "log" form is canonical: two results are   *)
(* equal as reals iff their records are equal.                             *)
(***************************************************************************)
EXTENDS Integers, Sequences, FiniteSets, TLC

\* Finite doubles of the model are the integers -1 .. MaxVal.
MaxVal == 2

VARIABLES pc, call, out

vars == <<pc, call, out>>

----------------------------------------------------------------------------
\* Exact rational arithmetic with IEEE specials

Abs(n) == IF n < 0 THEN -n ELSE n

RECURSIVE GCD(_, _)
GCD(a, b) == IF b = 0 THEN a ELSE GCD(b, a % b)

NaN == [cls |-> "nan", num |-> 0, den |-> 1]
PosInf == [cls |-> "pinf", num |-> 0, den |-> 1]
NegInf == [cls |-> "ninf", num |-> 0, den |-> 1]

\* n/d in lowest terms, d # 0
Rat(n, d) ==
  LET g == GCD(Abs(n), Abs(d))
      s == IF d < 0 THEN -1 ELSE 1
  IN [cls |-> "fin", num |-> (s * n) \div g, den |-> (s * d) \div g]

Doubles ==
  {NaN, PosInf, NegInf} \cup {Rat(n, 1) : n \in (0 - 1) .. MaxVal}

IsNaN(x) == x.cls = "nan"
IsInf(x) == x.cls \in {"pinf", "ninf"}
IsFinite(x) == x.cls = "fin"
\* x > 0 as the comparison evaluates: false for NaN
IsPositive(x) == x.cls = "pinf" \/ (x.cls = "fin" /\ x.num > 0)
IsNegative(x) == x.cls = "ninf" \/ (x.cls = "fin" /\ x.num < 0)
Opposite(x) == IF x.cls = "pinf" THEN NegInf ELSE PosInf

\* a - b
Minus(a, b) ==
  IF IsNaN(a) \/ IsNaN(b) THEN NaN
  ELSE IF IsFinite(a) /\ IsFinite(b)
       THEN Rat(a.num * b.den - b.num * a.den, a.den * b.den)
  ELSE IF IsFinite(a) THEN Opposite(b)
  ELSE IF IsFinite(b) THEN a
  ELSE IF a.cls = b.cls THEN NaN ELSE a

\* a / b (a zero divisor is +0)
Divide(a, b) ==
  IF IsNaN(a) \/ IsNaN(b) THEN NaN
  ELSE IF IsFinite(a) /\ IsFinite(b)
       THEN IF b.num = 0
            THEN IF a.num = 0 THEN NaN
                 ELSE IF a.num > 0 THEN PosInf ELSE NegInf
            ELSE Rat(a.num * b.den, a.den * b.num)
  ELSE IF IsFinite(a) THEN Rat(0, 1)
  ELSE IF IsFinite(b) THEN IF b.num < 0 THEN Opposite(a) ELSE a
  ELSE NaN

\* stan::math::square
square(x) ==
  IF IsNaN(x) THEN NaN
  ELSE IF IsInf(x) THEN PosInf
  ELSE Rat(x.num * x.num, x.den * x.den)

----------------------------------------------------------------------------
\* Results

RNaN == [cls |-> "nan", form |-> "special", pi |-> 0, num |-> 0, den |-> 1]
RPosInf == [cls |-> "pinf", form |-> "special", pi |-> 0, num |-> 0, den |-> 1]
RNegInf == [cls |-> "ninf", form |-> "special", pi |-> 0, num |-> 0, den |-> 1]

\* k * (-log(pi)) - log(n/d), n/d > 0
LogForm(k, n, d) ==
  LET r == Rat(n, d)
  IN [cls |-> "fin", form |-> "log", pi |-> k, num |-> r.num, den |-> r.den]

\* the double 0.0 as a result: 0 * (-log(pi)) - log(1)
Zero == LogForm(0, 1, 1)

\* a + b on results of form "log"
RAdd(a, b) ==
  IF a.cls = "nan" \/ b.cls = "nan" THEN RNaN
  ELSE IF a.cls = "fin" /\ b.cls = "fin"
       THEN LogForm(a.pi + b.pi, a.num * b.num, a.den * b.den)
  ELSE IF a.cls = "fin" THEN b
  ELSE IF b.cls = "fin" THEN a
  ELSE IF a.cls = b.cls THEN a ELSE RNaN

\* -a
RNeg(a) ==
  IF a.cls = "nan" THEN RNaN
  ELSE IF a.cls = "pinf" THEN RNegInf
  ELSE IF a.cls = "ninf" THEN RPosInf
  ELSE LogForm(0 - a.pi, a.den, a.num)

\* a - b
RSub(a, b) == RAdd(a, RNeg(b))

\* log(x) of a double, as a result
log(x) ==
  IF IsNaN(x) \/ IsNegative(x) THEN RNaN
  ELSE IF x.cls = "pinf" THEN RPosInf
  ELSE IF x.num = 0 THEN RNegInf
  ELSE LogForm(0, x.den, x.num)

\* stan::math::log1p: log(1 + x)
log1p(x) ==
  IF IsFinite(x) THEN log(Rat(x.num + x.den, x.den)) ELSE log(x)

\* atan2(dy, dx) / pi() + 0.5: the angle is kept as the direction (dy, dx)
AtanForm(n, d) ==
  LET g == GCD(Abs(n), Abs(d))
  IN IF g = 0 THEN [cls |-> "fin", form |-> "atan", pi |-> 0, num |-> 0, den |-> 1]
     ELSE [cls |-> "fin", form |-> "atan", pi |-> 0,
           num |-> n \div g, den |-> d \div g]

InfSign(x) == IF x.cls = "pinf" THEN 1 ELSE -1

atan2_over_pi_plus_half(dy, dx) ==
  IF IsNaN(dy) \/ IsNaN(dx) THEN RNaN
  ELSE IF IsFinite(dy) /\ IsFinite(dx)
       THEN AtanForm(dy.num * dx.den, dx.num * dy.den)
  ELSE IF IsFinite(dx) THEN AtanForm(InfSign(dy), 0)
  ELSE IF IsFinite(dy) THEN AtanForm(0, InfSign(dx))
  ELSE AtanForm(InfSign(dy), InfSign(dx))

----------------------------------------------------------------------------
\* Error policy (the Policy template parameter and its objects)

\* A policy type either signals a hard error or writes a sentinel and lets
\* the caller return early.
PolicyTypes == {"hard", "soft"}

\* The state a policy object may carry: the sentinel it writes.
PolicySentinels == {RNaN, RNegInf}

PolicyObjects == [type : PolicyTypes, sentinel : PolicySentinels]

\* Policy(): a freshly default-constructed policy of the given object's type
DefaultConstruct(policy) == [type |-> policy.type, sentinel |-> RNaN]

\* stan::math::default_policy()
default_policy == [type |-> "hard", sentinel |-> RNaN]

\* The policy receives the failure: a hard policy signals the error, a soft
\* one writes its sentinel into the slot.
raise_domain_error(function, name, value, check, lp, policy) ==
  [ok |-> FALSE,
   thrown |-> policy.type = "hard",
   lp |-> IF policy.type = "hard" THEN lp ELSE policy.sentinel,
   reports |-> << [policy |-> policy, function |-> function, check |-> check,
                   label |-> name, value |-> value] >>]

Passed(lp) == [ok |-> TRUE, thrown |-> FALSE, lp |-> lp, reports |-> << >>]

\* stan::math::check_not_nan
check_not_nan(function, x, name, lp, policy) ==
  IF ~IsNaN(x) THEN Passed(lp)
  ELSE raise_domain_error(function, name, x, "check_not_nan", lp, policy)

\* stan::math::check_finite
check_finite(function, x, name, lp, policy) ==
  IF IsFinite(x) THEN Passed(lp)
  ELSE raise_domain_error(function, name, x, "check_finite", lp, policy)

\* stan::math::check_positive
check_positive(function, x, name, lp, policy) ==
  IF IsPositive(x) THEN Passed(lp)
  ELSE raise_domain_error(function, name, x, "check_positive", lp, policy)

RunCheck(c, function, lp, policy) ==
  IF c.check = "check_not_nan"
  THEN check_not_nan(function, c.value, c.label, lp, policy)
  ELSE IF c.check = "check_finite"
  THEN check_finite(function, c.value, c.label, lp, policy)
  ELSE check_positive(function, c.value, c.label, lp, policy)

----------------------------------------------------------------------------
\* Argument types and the selective terms

\* T_y, T_loc, T_scale: a plain scalar or a differentiable type
ScalarTypes == {"double", "var"}
ArgTypes == [Ty : ScalarTypes, Tloc : ScalarTypes, Tscale : ScalarTypes]

is_constant(T) == T = "double"

\* boost::math::tools::promote_args<T_y,T_loc,T_scale>::type
promote_args(t) ==
  IF t.Ty = "var" \/ t.Tloc = "var" \/ t.Tscale = "var" THEN "var" ELSE "double"

\* include_summand<propto, T...>::value
include_summand(propto, types) ==
  ~propto \/ \E i \in 1 .. Len(types) : ~is_constant(types[i])

\* stan::prob::NEG_LOG_PI
NEG_LOG_PI == LogForm(1, 1, 1)

----------------------------------------------------------------------------
\* Validation, shared shape of cauchy_log and cauchy_p

\* static const char* function
function_log == "stan::prob::cauchy_log<%1%>(%1%)"
function_p == "stan::prob::cauchy_p<%1%>(%1%)"

\* Mutant: the scale's positivity is checked before its finiteness
Checks_log_swapped(y, mu, sigma) ==
  << [check |-> "check_not_nan", value |-> y, label |-> "Random variate, y,"],
     [check |-> "check_finite", value |-> mu, label |-> "Location parameter, mu,"],
     [check |-> "check_positive", value |-> sigma, label |-> "Scale parameter, sigma,"],
     [check |-> "check_finite", value |-> sigma, label |-> "Scale parameter, sigma,"] >>

\* The four checks of cauchy_log, in program order
Checks_log(y, mu, sigma) ==
  << [check |-> "check_not_nan", value |-> y, label |-> "Random variate, y,"],
     [check |-> "check_finite", value |-> mu, label |-> "Location parameter, mu,"],
     [check |-> "check_finite", value |-> sigma, label |-> "Scale parameter, sigma,"],
     [check |-> "check_positive", value |-> sigma, label |-> "Scale parameter, sigma,"] >>

\* Mutant: the location is checked before the variate
Checks_p_swapped(y, mu, sigma) ==
  << [check |-> "check_finite", value |-> mu, label |-> "Location parameter, mu,"],
     [check |-> "check_not_nan", value |-> y, label |-> "Random variate, y,"],
     [check |-> "check_finite", value |-> sigma, label |-> "Scale parameter, sigma,"],
     [check |-> "check_positive", value |-> sigma, label |-> "Scale parameter, sigma,"] >>

\* The four checks of cauchy_p, in program order
Checks_p(y, mu, sigma) ==
  << [check |-> "check_not_nan", value |-> y, label |-> "Random variate, y,"],
     [check |-> "check_finite", value |-> mu, label |-> "Location parameter, mu,"],
     [check |-> "check_finite", value |-> sigma, label |-> "Scale parameter, sigma,"],
     [check |-> "check_positive", value |-> sigma, label |-> "Scale parameter, sigma,"] >>

\* Mutant: the result of a check is ignored
ReturnsEarly_never(ok) == FALSE

\* if(!check_...(...)) return lp;
ReturnsEarly(ok) == ~ok

\* Mutant: the caller's policy object is handed to the checks
PolicyForChecks_passed(policy) == policy

\* The policy object every check is handed: Policy()
PolicyForChecks(policy) == DefaultConstruct(policy)

\* typename promote_args<T_y,T_loc,T_scale>::type lp(0.0);
InitialLp == Zero

Entry(lp) ==
  [stopped |-> FALSE, thrown |-> FALSE, lp |-> lp, reports |-> << >>,
   evaluated |-> << >>]

\* The checks from the i-th on: each is evaluated on the slot lp; a hard
\* error leaves the function at once, a false result returns lp.
RECURSIVE Validate(_, _, _, _, _)
Validate(checks, i, function, acc, policy) ==
  IF i > Len(checks) THEN acc
  ELSE LET r == RunCheck(checks[i], function, acc.lp, policy)
           now == [stopped |-> r.thrown \/ ReturnsEarly(r.ok),
                   thrown |-> r.thrown,
                   lp |-> r.lp,
                   reports |-> acc.reports \o r.reports,
                   evaluated |-> Append(acc.evaluated,
                                        [check |-> checks[i].check,
                                         label |-> checks[i].label])]
       IN IF now.stopped THEN now
          ELSE Validate(checks, i + 1, function, now, policy)

\* What a call leaves behind: how it ended, the value returned, its static
\* type, the checks evaluated, the failures the policy received, and the
\* formula terms evaluated.
Outcome(status, value, rtype, v, terms) ==
  [status |-> status, value |-> value, rtype |-> rtype,
   evaluated |-> v.evaluated, reports |-> v.reports, terms |-> terms]

----------------------------------------------------------------------------
\* cauchy_log

\* Mutant: the constant is kept whenever an argument is active
IncludeNegLogPi_active(propto, t) ==
  include_summand(propto, << t.Ty, t.Tloc, t.Tscale >>)

\* include_summand<propto>::value
IncludeNegLogPi(propto, t) == include_summand(propto, << >>)

\* Mutant: the scale term is kept whenever any argument is active
IncludeLogSigma_all(propto, t) ==
  include_summand(propto, << t.Ty, t.Tloc, t.Tscale >>)

\* include_summand<propto,T_scale>::value
IncludeLogSigma(propto, t) == include_summand(propto, << t.Tscale >>)

\* Mutant: the variate's type is left out of the last term's list
IncludeLog1p_noy(propto, t) == include_summand(propto, << t.Tloc, t.Tscale >>)

\* include_summand<propto,T_y,T_loc,T_scale>::value
IncludeLog1p(propto, t) == include_summand(propto, << t.Ty, t.Tloc, t.Tscale >>)

\* cauchy_log<propto>(y, mu, sigma, Policy)
cauchy_log(propto, t, y, mu, sigma, policy) ==
  LET v == Validate(Checks_log(y, mu, sigma), 1, function_log,
                    Entry(InitialLp), PolicyForChecks(policy))
      incA == IncludeNegLogPi(propto, t)
      incB == IncludeLogSigma(propto, t)
      incC == IncludeLog1p(propto, t)
      lp1 == IF incA THEN RAdd(v.lp, NEG_LOG_PI) ELSE v.lp
      lp2 == IF incB THEN RSub(lp1, log(sigma)) ELSE lp1
      lp3 == IF incC
             THEN RSub(lp2, log1p(square(Divide(Minus(y, mu), sigma))))
             ELSE lp2
      terms == (IF incA THEN << "NEG_LOG_PI" >> ELSE << >>)
               \o (IF incB THEN << "log(sigma)" >> ELSE << >>)
               \o (IF incC THEN << "log1p" >> ELSE << >>)
  IN IF v.thrown THEN Outcome("raised", v.lp, promote_args(t), v, << >>)
     ELSE IF v.stopped THEN Outcome("returned", v.lp, promote_args(t), v, << >>)
     ELSE Outcome("returned", lp3, promote_args(t), v, terms)

\* cauchy_log<propto>(y, mu, sigma)
cauchy_log_propto(propto, t, y, mu, sigma) ==
  cauchy_log(propto, t, y, mu, sigma, default_policy)

\* cauchy_log(y, mu, sigma, Policy)
cauchy_log_policy(t, y, mu, sigma, policy) ==
  cauchy_log(FALSE, t, y, mu, sigma, DefaultConstruct(policy))

\* Mutant: the flag defaults to proportional-only
cauchy_log_default_propto(t, y, mu, sigma) ==
  cauchy_log(TRUE, t, y, mu, sigma, default_policy)

\* cauchy_log(y, mu, sigma)
cauchy_log_default(t, y, mu, sigma) ==
  cauchy_log(FALSE, t, y, mu, sigma, default_policy)

----------------------------------------------------------------------------
\* cauchy_p

\* cauchy_p(y, mu, sigma, Policy)
cauchy_p(t, y, mu, sigma, policy) ==
  LET v == Validate(Checks_p(y, mu, sigma), 1, function_p,
                    Entry(InitialLp), PolicyForChecks(policy))
  IN IF v.thrown THEN Outcome("raised", v.lp, promote_args(t), v, << >>)
     ELSE IF v.stopped THEN Outcome("returned", v.lp, promote_args(t), v, << >>)
     ELSE Outcome("returned",
                  atan2_over_pi_plus_half(Minus(y, mu), sigma),
                  promote_args(t), v, << "atan2" >>)

\* cauchy_p(y, mu, sigma)
cauchy_p_default(t, y, mu, sigma) ==
  cauchy_p(t, y, mu, sigma, default_policy)

----------------------------------------------------------------------------
\* Calls.  One call is in progress at a time; the caller reads the outcome
\* and then makes its next call.

NoCall ==
  [op |-> "none", propto |-> FALSE,
   t |-> [Ty |-> "double", Tloc |-> "double", Tscale |-> "double"],
   y |-> NaN, mu |-> NaN, sigma |-> NaN, policy |-> default_policy]

NoOutcome ==
  [status |-> "none", value |-> Zero, rtype |-> "double",
   evaluated |-> << >>, reports |-> << >>, terms |-> << >>]

Init ==
  /\ pc = "idle"
  /\ call = NoCall
  /\ out = NoOutcome

Call_cauchy_log ==
  /\ pc = "idle"
  /\ \E propto \in BOOLEAN, t \in ArgTypes, y \in Doubles, mu \in Doubles,
        sigma \in Doubles, policy \in PolicyObjects :
       /\ call' = [op |-> "cauchy_log", propto |-> propto, t |-> t, y |-> y,
                   mu |-> mu, sigma |-> sigma, policy |-> policy]
       /\ out' = cauchy_log(propto, t, y, mu, sigma, policy)
  /\ pc' = "done"

Call_cauchy_log_propto ==
  /\ pc = "idle"
  /\ \E propto \in BOOLEAN, t \in ArgTypes, y \in Doubles, mu \in Doubles,
        sigma \in Doubles :
       /\ call' = [op |-> "cauchy_log_propto", propto |-> propto, t |-> t,
                   y |-> y, mu |-> mu, sigma |-> sigma,
                   policy |-> NoCall.policy]
       /\ out' = cauchy_log_propto(propto, t, y, mu, sigma)
  /\ pc' = "done"

Call_cauchy_log_policy ==
  /\ pc = "idle"
  /\ \E t \in ArgTypes, y \in Doubles, mu \in Doubles, sigma \in Doubles,
        policy \in PolicyObjects :
       /\ call' = [op |-> "cauchy_log_policy", propto |-> NoCall.propto,
                   t |-> t, y |-> y, mu |-> mu, sigma |-> sigma,
                   policy |-> policy]
       /\ out' = cauchy_log_policy(t, y, mu, sigma, policy)
  /\ pc' = "done"

Call_cauchy_log_default ==
  /\ pc = "idle"
  /\ \E t \in ArgTypes, y \in Doubles, mu \in Doubles, sigma \in Doubles :
       /\ call' = [op |-> "cauchy_log_default", propto |-> NoCall.propto,
                   t |-> t, y |-> y, mu |-> mu, sigma |-> sigma,
                   policy |-> NoCall.policy]
       /\ out' = cauchy_log_default(t, y, mu, sigma)
  /\ pc' = "done"

Call_cauchy_p ==
  /\ pc = "idle"
  /\ \E t \in ArgTypes, y \in Doubles, mu \in Doubles, sigma \in Doubles,
        policy \in PolicyObjects :
       /\ call' = [op |-> "cauchy_p", propto |-> NoCall.propto, t |-> t,
                   y |-> y, mu |-> mu, sigma |-> sigma, policy |-> policy]
       /\ out' = cauchy_p(t, y, mu, sigma, policy)
  /\ pc' = "done"

Call_cauchy_p_default ==
  /\ pc = "idle"
  /\ \E t \in ArgTypes, y \in Doubles, mu \in Doubles, sigma \in Doubles :
       /\ call' = [op |-> "cauchy_p_default", propto |-> NoCall.propto,
                   t |-> t, y |-> y, mu |-> mu, sigma |-> sigma,
                   policy |-> NoCall.policy]
       /\ out' = cauchy_p_default(t, y, mu, sigma)
  /\ pc' = "done"

\* The call is over; nothing of it is kept.
Return ==
  /\ pc = "done"
  /\ pc' = "idle"
  /\ call' = NoCall
  /\ out' = NoOutcome

Next ==
  \/ Call_cauchy_log
  \/ Call_cauchy_log_propto
  \/ Call_cauchy_log_policy
  \/ Call_cauchy_log_default
  \/ Call_cauchy_p
  \/ Call_cauchy_p_default
  \/ Return

Spec == Init /\ [][Next]_vars

----------------------------------------------------------------------------
\* Properties

Done == pc = "done"

LogOps == {"cauchy_log", "cauchy_log_propto", "cauchy_log_policy", "cauchy_log_default"}
POps == {"cauchy_p", "cauchy_p_default"}
FlagOps == {"cauchy_log", "cauchy_log_propto"}
PolicyOps == {"cauchy_log", "cauchy_log_policy", "cauchy_p"}

\* The four requirements on the arguments, in the documented order, each with
\* whether the current call's argument breaks it.
Requirements ==
  << [check |-> "check_not_nan", label |-> "Random variate, y,",
      value |-> call.y, fails |-> IsNaN(call.y)],
     [check |-> "check_finite", label |-> "Location parameter, mu,",
      value |-> call.mu, fails |-> ~IsFinite(call.mu)],
     [check |-> "check_finite", label |-> "Scale parameter, sigma,",
      value |-> call.sigma, fails |-> ~IsFinite(call.sigma)],
     [check |-> "check_positive", label |-> "Scale parameter, sigma,",
      value |-> call.sigma, fails |-> ~IsPositive(call.sigma)] >>

Failing == {i \in 1 .. 4 : Requirements[i].fails}

FirstFailing ==
  IF Failing = {} THEN 0 ELSE CHOOSE i \in Failing : \A j \in Failing : i <= j

Valid == Failing = {}

\* A report without the function name and the policy object
Bare(r) == [check |-> r.check, label |-> r.label, value |-> r.value]

BareReports(o) == [i \in 1 .. Len(o.reports) |-> Bare(o.reports[i])]

\* The policy the current call runs under
CallPolicy == IF call.op \in PolicyOps THEN call.policy ELSE default_policy

\* The same arguments given to the other operation
Sibling ==
  IF call.op \in LogOps
  THEN cauchy_p(call.t, call.y, call.mu, call.sigma, CallPolicy)
  ELSE cauchy_log(FALSE, call.t, call.y, call.mu, call.sigma, CallPolicy)

\* C1: in cauchy_log and in cauchy_p the checks run in the order not-NaN(y),
\* finite(mu), finite(sigma), positive(sigma); the failure the policy receives
\* carries the check, label and value of the earliest failing one, the checks
\* evaluated are exactly those up to it, and the other operation fails on
\* the same check for the same (y, mu, sigma).
C1_FirstFailingCheckReported ==
  Done =>
    LET k == FirstFailing
        n == IF k = 0 THEN 4 ELSE k
    IN /\ out.evaluated =
            [i \in 1 .. n |-> [check |-> Requirements[i].check,
                               label |-> Requirements[i].label]]
       /\ k = 0 => out.reports = << >>
       /\ k > 0 => /\ Len(out.reports) = 1
                   /\ Bare(out.reports[1]) =
                        [check |-> Requirements[k].check,
                         label |-> Requirements[k].label,
                         value |-> Requirements[k].value]
       /\ BareReports(Sibling) = BareReports(out)
       /\ Sibling.evaluated = out.evaluated

\* cauchy_p with an infinite location and a NaN scale: two checks would fail,
\* the location's is the one reported.
C1_Witness ==
  /\ Done
  /\ call.op = "cauchy_p"
  /\ IsFinite(call.y) /\ IsInf(call.mu) /\ IsNaN(call.sigma)
  /\ Len(out.reports) = 1
  /\ out.reports[1].label = "Location parameter, mu,"
  /\ Len(out.evaluated) = 2

\* C2: when a check fails the call ends there: under a soft policy it returns
\* the value in the sentinel slot, under a hard one the error leaves the
\* function; in neither case is a term of the formula evaluated, and the
\* formula is evaluated only when all four checks passed.
C2_EarlyReturnWithSentinel ==
  Done =>
    /\ ~Valid =>
         /\ out.terms = << >>
         /\ Len(out.evaluated) = FirstFailing
         /\ Len(out.reports) >= 1
         /\ out.status = (IF CallPolicy.type = "hard" THEN "raised" ELSE "returned")
         /\ out.status = "returned" =>
              out.value = out.reports[Len(out.reports)].policy.sentinel
    /\ out.terms # << >> =>
         /\ Valid
         /\ Len(out.evaluated) = 4
         /\ out.reports = << >>
         /\ out.status = "returned"

\* cauchy_log with sigma = 0 under a soft policy returns the sentinel.
C2_Witness ==
  /\ Done
  /\ call.op = "cauchy_log"
  /\ call.policy.type = "soft"
  /\ IsFinite(call.y) /\ IsFinite(call.mu) /\ call.sigma = Rat(0, 1)
  /\ out.status = "returned"
  /\ out.value = RNaN
  /\ out.terms = << >>

ScaleRejected(check) ==
  /\ out.terms = << >>
  /\ Len(out.reports) = 1
  /\ out.reports[1].check = check
  /\ out.reports[1].label = "Scale parameter, sigma,"

\* C3 as stated: with finite y and mu, every zero or negative sigma is
\* reported by the positivity check and NaN sigma by the finiteness check.
C3_NegativeScaleByPositivity ==
  (Done /\ IsFinite(call.y) /\ IsFinite(call.mu)) =>
    /\ IsNaN(call.sigma) => ScaleRejected("check_finite")
    /\ (IsNegative(call.sigma) \/ call.sigma = Rat(0, 1)) =>
         ScaleRejected("check_positive")

\* C3 (amended): with finite y and mu, validation fails before any term of
\* the formula for every sigma that is zero, negative or NaN: a zero or
\* finite negative sigma is reported by the positivity check, NaN and minus
\* infinity by the finiteness check.
C3_NonPositiveScaleRejected ==
  (Done /\ IsFinite(call.y) /\ IsFinite(call.mu)) =>
    /\ (IsNaN(call.sigma) \/ call.sigma = NegInf) => ScaleRejected("check_finite")
    /\ (IsFinite(call.sigma) /\ ~IsPositive(call.sigma)) =>
         ScaleRejected("check_positive")

\* A NaN scale is rejected by check_finite in cauchy_log.
C3_Witness ==
  /\ Done
  /\ call.op = "cauchy_log"
  /\ IsFinite(call.y) /\ IsFinite(call.mu) /\ IsNaN(call.sigma)
  /\ Len(out.evaluated) = 3
  /\ out.reports[1].check = "check_finite"


\* The three terms of the log-density at the current arguments
TermA == NEG_LOG_PI
TermB == RNeg(log(call.sigma))
TermC == RNeg(log1p(square(Divide(Minus(call.y, call.mu), call.sigma))))

Active(T) == T = "var"
ScaleActive == Active(call.t.Tscale)
AnyActive == Active(call.t.Ty) \/ Active(call.t.Tloc) \/ Active(call.t.Tscale)

HasTerm(o, name) == \E i \in 1 .. Len(o.terms) : o.terms[i] = name

\* 0 plus the terms of o, each with its value at the current arguments
SumOfTerms(o) ==
  LET a == IF HasTerm(o, "NEG_LOG_PI") THEN RAdd(Zero, TermA) ELSE Zero
      b == IF HasTerm(o, "log(sigma)") THEN RAdd(a, TermB) ELSE a
  IN IF HasTerm(o, "log1p") THEN RAdd(b, TermC) ELSE b

\* C4: for valid input cauchy_log adds -log(sigma) unless the flag is set and
\* the scale is not active, adds -log1p(square((y-mu)/sigma)) unless the flag
\* is set and no argument is active, and returns 0 plus exactly the selected
\* terms (with -log(pi) when that is selected).
C4_SelectedTermsSummed ==
  (Done /\ call.op \in FlagOps /\ Valid) =>
    /\ HasTerm(out, "log(sigma)") <=> ~(call.propto /\ ~ScaleActive)
    /\ HasTerm(out, "log1p") <=> ~(call.propto /\ ~AnyActive)
    /\ Len(out.terms) = Cardinality({out.terms[i] : i \in 1 .. Len(out.terms)})
    /\ out.status = "returned"
    /\ out.value = SumOfTerms(out)

\* Proportional-only with only the variate active: the scale term is dropped
\* and the last term kept.
C4_Witness ==
  /\ Done
  /\ call.op = "cauchy_log"
  /\ Valid
  /\ call.propto
  /\ call.t = [Ty |-> "var", Tloc |-> "double", Tscale |-> "double"]
  /\ call.sigma = Rat(2, 1)
  /\ call.y # call.mu
  /\ out.terms = << "log1p" >>
  /\ out.value = TermC

\* C5 as stated: for valid input -log(pi) is added in every call except
\* those with the flag set and no argument active.
C5_ConstantKeptWhenActive ==
  (Done /\ call.op \in FlagOps /\ Valid) =>
    (HasTerm(out, "NEG_LOG_PI") <=> ~(call.propto /\ ~AnyActive))

\* C5 (amended): for valid input -log(pi) is added exactly when the flag is
\* not set, whichever arguments are active.
C5_ConstantKeptUnlessPropto ==
  (Done /\ call.op \in FlagOps /\ Valid) =>
    (HasTerm(out, "NEG_LOG_PI") <=> ~call.propto)

\* Proportional-only with every argument active: the constant is dropped.
C5_Witness ==
  /\ Done
  /\ call.op = "cauchy_log"
  /\ Valid
  /\ call.propto
  /\ call.t = [Ty |-> "var", Tloc |-> "var", Tscale |-> "var"]
  /\ out.terms = << "log(sigma)", "log1p" >>

OnlyVariateActive ==
  call.t = [Ty |-> "var", Tloc |-> "double", Tscale |-> "double"]

Full(y) == cauchy_log(FALSE, call.t, y, call.mu, call.sigma, call.policy)
Selective(y) == cauchy_log(TRUE, call.t, y, call.mu, call.sigma, call.policy)

\* full minus selective at variate y
Difference(y) == RSub(Full(y).value, Selective(y).value)

\* The terms the full evaluation has and the selective one has not, summed
Dropped ==
  LET f == Full(call.y)
      s == Selective(call.y)
      a == IF HasTerm(f, "NEG_LOG_PI") /\ ~HasTerm(s, "NEG_LOG_PI")
           THEN RAdd(Zero, TermA) ELSE Zero
      b == IF HasTerm(f, "log(sigma)") /\ ~HasTerm(s, "log(sigma)")
           THEN RAdd(a, TermB) ELSE a
  IN IF HasTerm(f, "log1p") /\ ~HasTerm(s, "log1p") THEN RAdd(b, TermC) ELSE b

ValidVariates == {y \in Doubles : ~IsNaN(y)}
FiniteVariates == {y \in ValidVariates : Full(y).value.cls = "fin"}

\* The call is one side of the comparison
Compared ==
  /\ Done
  /\ call.op = "cauchy_log"
  /\ Valid
  /\ out = (IF call.propto THEN Selective(call.y) ELSE Full(call.y))

\* C6 as stated: for all valid (y, mu, sigma) with only the variate active,
\* full minus selective is the same for every y, and the selective value is
\* the full value minus the dropped terms.
C6_DifferenceSameForValid ==
  (Compared /\ OnlyVariateActive) =>
    /\ \A y2 \in ValidVariates : Difference(y2) = Difference(call.y)
    /\ Selective(call.y).value = RSub(Full(call.y).value, Dropped)

\* C6 (amended): for valid (y, mu, sigma) with only the variate active,
\* full minus selective is -log(pi) - log(sigma) for every y at which the
\* full log-density is finite (at y = +-infinity both values are -infinity
\* and their difference is NaN); and at every valid y the selective value is
\* the full value minus exactly the terms the selection drops.
C6_DifferenceSameForFinite ==
  (Compared /\ OnlyVariateActive) =>
    /\ call.y \in FiniteVariates =>
         /\ \A y2 \in FiniteVariates : Difference(y2) = Difference(call.y)
         /\ Difference(call.y) = RAdd(TermA, TermB)
    /\ Selective(call.y).value = RSub(Full(call.y).value, Dropped)

\* A proportional-only call with only the variate active, away from the
\* location and with a scale whose logarithm is not 0.
C6_Witness ==
  /\ Compared
  /\ OnlyVariateActive
  /\ call.propto
  /\ call.y \in FiniteVariates
  /\ call.y # call.mu
  /\ call.sigma = Rat(2, 1)
  /\ Difference(call.y) = LogForm(1, 2, 1)

\* C7: each shortened overload gives the outcome of the full operation with
\* its defaults filled in: the flag false when omitted, the default policy
\* when omitted; a given flag and a given policy (by its type, which is
\* all the operation uses of it) are handed on unchanged.
C7_OverloadsFillDefaults ==
  Done =>
    /\ call.op = "cauchy_log_propto" =>
         out = cauchy_log(call.propto, call.t, call.y, call.mu, call.sigma,
                          default_policy)
    /\ call.op = "cauchy_log_policy" =>
         /\ out = cauchy_log(FALSE, call.t, call.y, call.mu, call.sigma,
                             call.policy)
         /\ \A i \in 1 .. Len(out.reports) :
              out.reports[i].policy.type = call.policy.type
    /\ call.op = "cauchy_log_default" =>
         out = cauchy_log(FALSE, call.t, call.y, call.mu, call.sigma,
                          default_policy)
    /\ call.op = "cauchy_p_default" =>
         out = cauchy_p(call.t, call.y, call.mu, call.sigma, default_policy)

\* cauchy_log(y, mu, sigma) on valid constants evaluates all three terms.
C7_Witness ==
  /\ Done
  /\ call.op = "cauchy_log_default"
  /\ Valid
  /\ ~AnyActive
  /\ out.terms = << "NEG_LOG_PI", "log(sigma)", "log1p" >>

\* C8: in cauchy_p every non-finite y, mu or sigma and every sigma <= 0 is
\* reported to the policy, and the CDF formula is not evaluated.
C8_AllVariablesFinite ==
  (Done /\ call.op \in POps
        /\ (~IsFinite(call.y) \/ ~IsFinite(call.mu) \/ ~IsFinite(call.sigma)
            \/ ~IsPositive(call.sigma))) =>
    /\ Len(out.reports) >= 1
    /\ out.terms = << >>

\* The outcome of the call's operation on the call's own arguments
OutcomeOf(c) ==
  IF c.op = "cauchy_log"
  THEN cauchy_log(c.propto, c.t, c.y, c.mu, c.sigma, c.policy)
  ELSE IF c.op = "cauchy_log_propto"
  THEN cauchy_log_propto(c.propto, c.t, c.y, c.mu, c.sigma)
  ELSE IF c.op = "cauchy_log_policy"
  THEN cauchy_log_policy(c.t, c.y, c.mu, c.sigma, c.policy)
  ELSE IF c.op = "cauchy_log_default"
  THEN cauchy_log_default(c.t, c.y, c.mu, c.sigma)
  ELSE IF c.op = "cauchy_p"
  THEN cauchy_p(c.t, c.y, c.mu, c.sigma, c.policy)
  ELSE cauchy_p_default(c.t, c.y, c.mu, c.sigma)

\* C9: a call whose arguments pass all four checks invokes the policy zero
\* times, a call with invalid arguments exactly once, for the first failing
\* check; the outcome is a function of the call's own arguments, flag and
\* policy, and nothing of a call is left when it has returned.
C9_PolicyInvokedAtMostOnce ==
  /\ Done =>
       /\ Valid => Len(out.reports) = 0
       /\ ~Valid =>
            /\ Len(out.reports) = 1
            /\ out.reports[1].check = Requirements[FirstFailing].check
            /\ out.reports[1].label = Requirements[FirstFailing].label
       /\ out = OutcomeOf(call)
  /\ ~Done => (call = NoCall /\ out = NoOutcome)

\* A call with three invalid arguments under a soft policy: one report.
C9_Witness ==
  /\ Done
  /\ call.op = "cauchy_p"
  /\ call.policy.type = "soft"
  /\ IsNaN(call.y) /\ IsNaN(call.mu) /\ IsNaN(call.sigma)
  /\ Len(out.reports) = 1
  /\ out.status = "returned"

WithState(policy, s) == [type |-> policy.type, sentinel |-> s]

\* C10: the policy object passed in is never read: the checks receive a
\* default-constructed policy of its type, and a call differing only in the
\* state of the policy object has the same outcome.
C10_PolicyObjectNeverRead ==
  (Done /\ call.op \in PolicyOps) =>
    /\ \A i \in 1 .. Len(out.reports) :
         out.reports[i].policy = DefaultConstruct(call.policy)
    /\ \A s \in PolicySentinels :
         OutcomeOf([call EXCEPT !.policy = WithState(call.policy, s)]) = out

\* A soft policy object carrying its own sentinel: the default-constructed
\* policy's sentinel is what comes back.
C10_Witness ==
  /\ Done
  /\ call.op = "cauchy_log"
  /\ call.policy = [type |-> "soft", sentinel |-> RNegInf]
  /\ IsNaN(call.y)
  /\ out.status = "returned"
  /\ out.value = RNaN

=============================================================================
